---- MODULE Spec2Model ----
(***************************************************************************)
(* SystemdShield: the hardening engine (src/src/hardening.py), the         *)
(* analyzer's threshold query (src/src/analyzer.py), the override          *)
(* rendering (src/src/models.py) and the revert command (src/src/main.py). *)
(*                                                                         *)
(* Representation.  A service name and an exclusion pattern are sequences  *)
(* of one-character strings, so that startswith / endswith / `in' are      *)
(* computed on characters.  A text file is a record [exists, text] whose   *)
(* text is the sequence of its lines; a line is a tuple of strings.        *)
(* Exposure scores are integers in tenths (96 is 9.6).  A library call     *)
(* that raises (copy2, mkdir, unlink, open) leaves the file system as it   *)
(* was; open(..., 'w') that succeeds truncates the file before anything is *)
(* written to it.                                                          *)
(***************************************************************************)
EXTENDS Integers, Sequences, FiniteSets, TLC

VARIABLES
    profiles,           \* ProfilesConfig.profiles: profile name -> overrides
    service_mappings,   \* ProfilesConfig.service_mappings: set of <<name, profile>>
    excluded_services,  \* ExclusionsConfig.excluded_services: list of patterns
    service_name,       \* the service whose override directory is modelled
    override_dir,       \* TRUE iff <service>.d exists
    override_file,      \* <service>.d/override.conf
    backup_file,        \* <service>.d/override.conf.backup
    pc,                 \* position in apply_hardening / rollback / revert
    op,                 \* "none", "apply", "revert", "is_excluded", "audit"
    arg_profile,        \* the profile_name argument of apply_hardening
    profile_name,       \* the local profile_name after resolution
    dry_run,            \* the dry_run argument
    initial_analysis,   \* the baseline analysis (None if it failed)
    rb_backup,          \* TRUE iff rollback was given a backup_file path
    rb_ret,             \* where rollback returns to
    exc,                \* the exception text caught at line 189
    result,             \* the HardeningResult returned (NoResult before)
    escaped,            \* TRUE iff an exception left apply_hardening / rollback
    log,                \* commands and file operations of the current call
    pre,                \* file system when the current call began
    prev,               \* the previous completed call, if it hardened the service
    q_name,             \* argument of the last is_excluded query
    q_result,           \* its return value
    audit_in,           \* inputs of the last get_high_exposure_services call
    audit_out,          \* its return value
    render_in,          \* the HardeningOverrides of the last to_systemd_config call
    render_out          \* its return value, as lines

vars == << profiles, service_mappings, excluded_services, service_name,
           override_dir, override_file, backup_file, pc, op, arg_profile,
           profile_name, dry_run, initial_analysis, rb_backup, rb_ret, exc,
           result, escaped, log, pre, prev, q_name, q_result, audit_in,
           audit_out, render_in, render_out >>

configVars == << profiles, service_mappings, excluded_services, service_name >>
fsVars     == << override_dir, override_file, backup_file >>
queryVars  == << q_name, q_result, audit_in, audit_out, render_in,
                render_out >>

None == "None"       \* None where a string is expected

NoScore == -1         \* None where a score is expected

NoError == << >>      \* None where an error text is expected

----------------------------------------------------------------------------
(* Strings as character sequences                                          *)

endswith(s, c) == Len(s) > 0 /\ s[Len(s)] = c

AllButLast(s) == SubSeq(s, 1, Len(s) - 1)

startswith(s, p) == Len(p) <= Len(s) /\ SubSeq(s, 1, Len(p)) = p

Contains(s, x) ==
    \E i \in 0..(Len(s) - Len(x)) : SubSeq(s, i + 1, i + Len(x)) = x

any_in(xs, s) == \E i \in 1..Len(xs) : Contains(s, xs[i])

kw_network == << <<"n","e","t","w","o","r","k">>, <<"w","p","a">>,
                 <<"d","h","c","p">> >>
kw_virtual == << <<"d","o","c","k","e","r">>, <<"l","i","b","v","i","r","t">>,
                 <<"v","i","r","t","u","a","l">> >>
kw_critical == << <<"d","b","u","s">>, <<"g","d","m">>,
                  <<"l","o","g","i","n">> >>

----------------------------------------------------------------------------
(* HardeningEngine.is_excluded                                             *)

\* the wildcard branch of line 46 left out
PatternMatches_ExactOnly(pattern, name) == name = pattern

PatternMatches(pattern, name) ==
    \/ endswith(pattern, "*") /\ startswith(name, AllButLast(pattern))
    \/ name = pattern

RECURSIVE is_excluded_from(_, _, _)
is_excluded_from(i, name, patterns) ==
    IF i > Len(patterns) THEN FALSE
    ELSE IF PatternMatches(patterns[i], name) THEN TRUE
    ELSE is_excluded_from(i + 1, name, patterns)

\* "return False" inside the loop: only the first pattern is looked at
is_excluded_FirstOnly(name, patterns) ==
    Len(patterns) > 0 /\ PatternMatches(patterns[1], name)

is_excluded(name, patterns) == is_excluded_from(1, name, patterns)

----------------------------------------------------------------------------
(* HardeningEngine.get_profile_for_service                                  *)

MappedNames(mappings) == { m[1] : m \in mappings }

Mapping(mappings, name) == (CHOOSE m \in mappings : m[1] = name)[2]

\* the critical heuristic tested before the virtualization heuristic
get_profile_CriticalFirst(name, mappings) ==
    IF name \in MappedNames(mappings) THEN Mapping(mappings, name)
    ELSE IF any_in(kw_network, name) THEN "network_service"
    ELSE IF any_in(kw_critical, name) THEN "critical_service"
    ELSE IF any_in(kw_virtual, name) THEN "virtualization_service"
    ELSE "system_service"

get_profile_for_service(name, mappings) ==
    IF name \in MappedNames(mappings) THEN Mapping(mappings, name)
    ELSE IF any_in(kw_network, name) THEN "network_service"
    ELSE IF any_in(kw_virtual, name) THEN "virtualization_service"
    ELSE IF any_in(kw_critical, name) THEN "critical_service"
    ELSE "system_service"

Falsy(x) == x = None \/ x = ""

ResolveProfile(arg, name, mappings) ==
    IF Falsy(arg) THEN get_profile_for_service(name, mappings) ELSE arg

----------------------------------------------------------------------------
(* HardeningOverrides.to_systemd_config                                     *)

Fields == << "NoNewPrivileges", "IPAddressDeny", "IPAddressAllow",
             "PrivateTmp", "ProtectKernelModules", "ProtectKernelTunables",
             "ProtectControlGroups", "RestrictRealtime", "LockPersonality",
             "ProtectHome", "ProtectSystem", "MemoryDenyWriteExecute",
             "RestrictSUIDSGID" >>

FieldSet == { Fields[i] : i \in 1..Len(Fields) }

NoOverrides == [f \in FieldSet |-> None]

RECURSIVE dump_lines(_, _)
dump_lines(i, overrides) ==
    IF i > Len(Fields) THEN << >>
    ELSE IF overrides[Fields[i]] = None THEN dump_lines(i + 1, overrides)
    ELSE << <<Fields[i], "=", overrides[Fields[i]]>> >>
         \o dump_lines(i + 1, overrides)

\* model_dump() without exclude_none=True: every field gets a line
to_systemd_config_DumpAll(overrides) ==
    << <<"[Service]">> >>
    \o [i \in 1..Len(Fields) |-> <<Fields[i], "=", overrides[Fields[i]]>>]

to_systemd_config(overrides) == << <<"[Service]">> >> \o dump_lines(1, overrides)

HeaderLine(p) == << "# Generated by SystemdShield - Profile: ", p >>


----------------------------------------------------------------------------
(* Configuration files and the services the engine is run on               *)

N_sshd        == <<"s","s","h","d">>
N_cron        == <<"c","r","o","n">>
N_docker      == <<"d","o","c","k","e","r">>
N_wpa_gdm     == <<"w","p","a","-","g","d","m">>
N_gdm_docker  == <<"g","d","m","-","d","o","c","k","e","r">>
N_libvirt_dhcp == <<"l","i","b","v","i","r","t","-","d","h","c","p">>

ServiceNames == { N_sshd, N_cron, N_docker, N_wpa_gdm, N_gdm_docker,
                  N_libvirt_dhcp }

P_network  == [NoOverrides EXCEPT !["NoNewPrivileges"] = "yes",
                                   !["PrivateTmp"] = "yes"]
P_system   == [NoOverrides EXCEPT !["NoNewPrivileges"] = "yes",
                                   !["IPAddressDeny"] = "any",
                                   !["PrivateTmp"] = "yes",
                                   !["ProtectKernelModules"] = "yes"]
P_critical == [NoOverrides EXCEPT !["NoNewPrivileges"] = "yes"]
P_virtual  == [NoOverrides EXCEPT !["NoNewPrivileges"] = "yes",
                                   !["ProtectKernelTunables"] = "yes"]

\* profiles.yaml as the tests describe it: the four profiles, docker mapped.
ConfigA == [ profiles |-> [ network_service |-> P_network,
                            system_service |-> P_system,
                            critical_service |-> P_critical,
                            virtualization_service |-> P_virtual ],
             service_mappings |-> { <<N_docker, "virtualization_service">> },
             excluded_services |-> << N_sshd, <<"w","p","a","*">> >> ]

\* a site configuration that dropped two profiles and maps to a missing one.
ConfigB == [ profiles |-> [ network_service |-> P_network,
                            critical_service |-> P_critical ],
             service_mappings |-> { <<N_docker, "critical_service">>,
                                    <<N_cron, "web_service">> },
             excluded_services |-> << <<"s","s","h","d","-","*">> >> ]

Configs == { ConfigA, ConfigB }

ProfileArgs == { None, "", "critical_service", "bogus" }

Absent == [exists |-> FALSE, text |-> << >>]

File(t) == [exists |-> TRUE, text |-> t]

\* an override the administrator wrote by hand before the tool was run
AdminText == << <<"[Service]">>, <<"Nice", "=", "5">> >>

NoResult == [service_name |-> << >>, success |-> FALSE,
             profile_applied |-> None, previous_score |-> NoScore,
             new_score |-> NoScore, rollback_performed |-> FALSE,
             error |-> NoError]

HardeningResult(success, applied, previous, new, rolled, error) ==
    [service_name |-> service_name, success |-> success,
     profile_applied |-> applied, previous_score |-> previous,
     new_score |-> new, rollback_performed |-> rolled, error |-> error]

NoCall == [kind |-> "none", profile |-> None, before |-> Absent,
           after |-> Absent]

NoAnalysis == [exposure_score |-> NoScore, is_active |-> FALSE, ok |-> FALSE]

NoPre == [override_file |-> Absent, backup_file |-> Absent,
          override_dir |-> FALSE]

Snapshot == [override_file |-> override_file, backup_file |-> backup_file,
             override_dir |-> override_dir]

NoAudit == [services |-> << >>, threshold |-> 0]

EngineIdle ==
    /\ pc = "idle" /\ op = "none" /\ arg_profile = None
    /\ profile_name = None /\ dry_run = FALSE /\ initial_analysis = NoAnalysis
    /\ rb_backup = FALSE /\ rb_ret = "none" /\ exc = NoError
    /\ result = NoResult /\ escaped = FALSE /\ log = << >>
    /\ pre = NoPre /\ prev = NoCall

QueriesIdle ==
    /\ q_name = << >> /\ q_result = FALSE
    /\ audit_in = NoAudit /\ audit_out = << >>
    /\ render_in = NoOverrides /\ render_out = << >>

Init ==
    /\ \E c \in Configs :
          /\ profiles = c.profiles
          /\ service_mappings = c.service_mappings
          /\ excluded_services = c.excluded_services
    /\ service_name \in ServiceNames
    /\ override_file \in { Absent, File(AdminText) }
    /\ override_dir \in BOOLEAN
    /\ override_file.exists => override_dir
    /\ backup_file = Absent
    /\ EngineIdle
    /\ QueriesIdle


----------------------------------------------------------------------------
(* Exceptions: where a raise at a given position is caught                 *)

ApplyTry == { "a_backup", "a_mkdir", "a_open", "a_write", "a_reload",
              "a_restart", "a_health", "a_final" }

RollbackTry == { "rb_file", "rb_reload", "rb_restart" }

\* the try of apply_hardening opened only before the write
Handler_TryAfterMkdir(at) ==
    IF at \in RollbackTry THEN "rb_except"
    ELSE IF at \in ApplyTry \ { "a_backup", "a_mkdir" } THEN "a_except"
    ELSE "escaped"

\* rollback without its try / except
Handler_RollbackUnguarded(at) ==
    IF at \in RollbackTry THEN "escaped"
    ELSE IF at \in ApplyTry THEN "a_except"
    ELSE "escaped"

Handler(at) ==
    IF at \in RollbackTry THEN "rb_except"
    ELSE IF at \in ApplyTry THEN "a_except"
    ELSE "escaped"

Raise(e) ==
    /\ IF Handler(pc) = "escaped"
       THEN /\ pc' = "done"
            /\ escaped' = TRUE
            /\ result' = NoResult
            /\ exc' = e
       ELSE /\ pc' = Handler(pc)
            /\ exc' = IF Handler(pc) = "a_except" THEN e ELSE exc
            /\ UNCHANGED << escaped, result >>

Logged(e) == log' = Append(log, e)

----------------------------------------------------------------------------
(* HardeningEngine.apply_hardening                                          *)

ApplyCall ==
    /\ pc = "idle"
    /\ \E p \in ProfileArgs, d \in BOOLEAN :
          /\ arg_profile' = p
          /\ profile_name' = p
          /\ dry_run' = d
    /\ op' = "apply"
    /\ pc' = "a_excluded"
    /\ pre' = Snapshot
    /\ log' = << >>
    /\ result' = NoResult
    /\ initial_analysis' = NoAnalysis
    /\ exc' = NoError
    /\ rb_backup' = FALSE
    /\ rb_ret' = "none"
    /\ UNCHANGED << configVars, fsVars, queryVars, escaped, prev >>

ExclusionError == << "Service is in exclusion list" >>

\* lines 86-92
ApplyExclusionCheck ==
    /\ pc = "a_excluded"
    /\ IF is_excluded(service_name, excluded_services)
       THEN /\ result' = HardeningResult(FALSE, None, NoScore, NoScore,
                                         FALSE, ExclusionError)
            /\ pc' = "done"
       ELSE /\ pc' = "a_analyze"
            /\ UNCHANGED result
    /\ UNCHANGED << configVars, fsVars, queryVars, op, arg_profile,
                    profile_name, dry_run, initial_analysis, rb_backup,
                    rb_ret, exc, escaped, log, pre, prev >>

Scores == { NoScore, 96 }

AnalyzeError == << "Failed to analyze service" >>

\* what analyze_service returns: None, or a ServiceAnalysis
Analyses == { NoAnalysis }
            \cup { [exposure_score |-> s, is_active |-> a, ok |-> TRUE] :
                    s \in Scores, a \in BOOLEAN }

\* the test of line 96 left out
AnalysisFailed_Never(a) == FALSE

\* line 96: if not initial_analysis
AnalysisFailed(a) == ~a.ok

\* lines 94-103
ApplyBaseline ==
    /\ pc = "a_analyze"
    /\ Logged("analyze")
    /\ \E a \in Analyses :
          /\ initial_analysis' = a
          /\ IF AnalysisFailed(a)
             THEN /\ result' = HardeningResult(FALSE, None, NoScore, NoScore,
                                               FALSE, AnalyzeError)
                  /\ pc' = "done"
             ELSE /\ pc' = "a_profile"
                  /\ UNCHANGED result
    /\ UNCHANGED << configVars, fsVars, queryVars, op, arg_profile,
                    profile_name, dry_run, rb_backup, rb_ret, exc, escaped,
                    pre, prev >>

UnknownProfile(p) == << "Unknown profile: ", p >>

\* the name tested against the built-in profile names as well
ProfileKnown_Builtin(p, table) ==
    p \in DOMAIN table \cup { "network_service", "virtualization_service",
                              "critical_service", "system_service" }

\* line 109: profile_name in self.profiles.profiles
ProfileKnown(p, table) == p \in DOMAIN table

\* lines 105-116
ApplyResolveProfile ==
    /\ pc = "a_profile"
    /\ profile_name' = ResolveProfile(profile_name, service_name,
                                      service_mappings)
    /\ IF ~ProfileKnown(profile_name', profiles)
       THEN /\ result' = HardeningResult(FALSE, None, NoScore, NoScore,
                                         FALSE, UnknownProfile(profile_name'))
            /\ pc' = "done"
       ELSE /\ pc' = "a_dry_run"
            /\ UNCHANGED result
    /\ UNCHANGED << configVars, fsVars, queryVars, op, arg_profile, dry_run,
                    initial_analysis, rb_backup, rb_ret, exc, escaped, log,
                    pre, prev >>

\* the dry_run flag ignored
DryRunIgnored(d) == FALSE

\* line 118: if dry_run
DryRunRequested(d) == d

\* lines 118-126
ApplyDryRun ==
    /\ pc = "a_dry_run"
    /\ IF DryRunRequested(dry_run)
       THEN /\ Logged("print_dry_run")
            /\ result' = HardeningResult(TRUE, profile_name,
                              initial_analysis.exposure_score, NoScore, FALSE,
                              NoError)
            /\ pc' = "done"
       ELSE /\ pc' = "a_backup"
            /\ UNCHANGED << result, log >>
    /\ UNCHANGED << configVars, fsVars, queryVars, op, arg_profile,
                    profile_name, dry_run, initial_analysis, rb_backup,
                    rb_ret, exc, escaped, pre, prev >>

\* lines 134-136: shutil.copy2(override_file, backup_file)
ApplyBackup ==
    /\ pc = "a_backup"
    /\ IF override_file.exists
       THEN \/ /\ backup_file' = override_file
               /\ Logged("copy_backup")
               /\ pc' = "a_mkdir"
               /\ UNCHANGED << exc, escaped, result >>
            \/ /\ Raise(<< "copy2 failed" >>)
               /\ UNCHANGED << backup_file, log >>
       ELSE /\ pc' = "a_mkdir"
            /\ UNCHANGED << backup_file, log, exc, escaped, result >>
    /\ UNCHANGED << configVars, override_dir, override_file, queryVars, op,
                    arg_profile, profile_name, dry_run, initial_analysis,
                    rb_backup, rb_ret, pre, prev >>

\* lines 138-139: override_dir.mkdir(parents=True, exist_ok=True)
ApplyMkdir ==
    /\ pc = "a_mkdir"
    /\ \/ /\ override_dir' = TRUE
          /\ IF override_dir THEN UNCHANGED log ELSE Logged("mkdir")
          /\ pc' = "a_open"
          /\ UNCHANGED << exc, escaped, result >>
       \/ /\ ~override_dir
          /\ Raise(<< "mkdir failed" >>)
          /\ UNCHANGED << override_dir, log >>
    /\ UNCHANGED << configVars, override_file, backup_file, queryVars, op,
                    arg_profile, profile_name, dry_run, initial_analysis,
                    rb_backup, rb_ret, pre, prev >>

\* the file opened with mode 'a'
OpenForAppend(f) == File(f.text)

OpenForWrite(f) == File(<< >>)

\* line 142: open(override_file, 'w') creates or truncates the file
ApplyOpen ==
    /\ pc = "a_open"
    /\ \/ /\ override_file' = OpenForWrite(override_file)
          /\ Logged("open_override")
          /\ pc' = "a_write"
          /\ UNCHANGED << exc, escaped, result >>
       \/ /\ Raise(<< "open failed" >>)
          /\ UNCHANGED << override_file, log >>
    /\ UNCHANGED << configVars, override_dir, backup_file, queryVars, op,
                    arg_profile, profile_name, dry_run, initial_analysis,
                    rb_backup, rb_ret, pre, prev >>

\* lines 143-144: the two f.write calls and the close of the with block
ApplyWrite ==
    /\ pc = "a_write"
    /\ \/ /\ override_file' = File(override_file.text
                                     \o << HeaderLine(profile_name) >>
                                     \o to_systemd_config(profiles[profile_name]))
          /\ Logged("write_override")
          /\ pc' = "a_reload"
          /\ UNCHANGED << exc, escaped, result >>
       \/ /\ Raise(<< "write failed" >>)
          /\ UNCHANGED << override_file, log >>
    /\ UNCHANGED << configVars, override_dir, backup_file, queryVars, op,
                    arg_profile, profile_name, dry_run, initial_analysis,
                    rb_backup, rb_ret, pre, prev >>

\* lines 146-147: subprocess.run(["systemctl", "daemon-reload"], check=True)
ApplyReload ==
    /\ pc = "a_reload"
    /\ Logged("daemon-reload")
    /\ \/ /\ pc' = "a_restart"
          /\ UNCHANGED << exc, escaped, result >>
       \/ Raise(<< "daemon-reload failed" >>)
    /\ UNCHANGED << configVars, fsVars, queryVars, op, arg_profile,
                    profile_name, dry_run, initial_analysis, rb_backup,
                    rb_ret, pre, prev >>

\* the restart issued whatever the baseline state
RestartWanted_Always(a) == TRUE

\* line 150: if initial_analysis.is_active
RestartWanted(a) == a.is_active

\* lines 149-155: restart with check=True, timeout=10
ApplyRestart ==
    /\ pc = "a_restart"
    /\ IF RestartWanted(initial_analysis)
       THEN /\ Logged("restart")
            /\ \/ /\ pc' = "a_health"
                  /\ UNCHANGED << exc, escaped, result >>
               \/ Raise(<< "restart returned non-zero exit status" >>)
               \/ Raise(<< "restart timed out after 10 seconds" >>)
       ELSE /\ pc' = "a_final"
            /\ UNCHANGED << log, exc, escaped, result >>
    /\ UNCHANGED << configVars, fsVars, queryVars, op, arg_profile,
                    profile_name, dry_run, initial_analysis, rb_backup,
                    rb_ret, pre, prev >>

\* lines 157-167: is-active, and the call of rollback(service_name, backup_file)
ApplyHealthCheck ==
    /\ pc = "a_health"
    /\ Logged("is-active")
    /\ \/ /\ pc' = "a_final"
          /\ UNCHANGED << exc, escaped, result, rb_backup, rb_ret >>
       \/ /\ pc' = "rb_file"
          /\ rb_backup' = TRUE
          /\ rb_ret' = "a_health_failed"
          /\ UNCHANGED << exc, escaped, result >>
       \/ /\ Raise(<< "is-active failed" >>)
          /\ UNCHANGED << rb_backup, rb_ret >>
    /\ UNCHANGED << configVars, fsVars, queryVars, op, arg_profile,
                    profile_name, dry_run, initial_analysis, pre, prev >>

HealthError == << "Service failed health check after hardening" >>

\* lines 168-175
ApplyHealthFailed ==
    /\ pc = "a_health_failed"
    /\ result' = HardeningResult(FALSE, profile_name,
                      initial_analysis.exposure_score, NoScore, TRUE,
                      HealthError)
    /\ pc' = "done"
    /\ UNCHANGED << configVars, fsVars, queryVars, op, arg_profile,
                    profile_name, dry_run, initial_analysis, rb_backup,
                    rb_ret, exc, escaped, log, pre, prev >>

NewScores == { NoScore, 42 }

\* lines 177-187
ApplyFinal ==
    /\ pc = "a_final"
    /\ Logged("analyze")
    /\ \E n \in NewScores :
          result' = HardeningResult(TRUE, profile_name,
                        initial_analysis.exposure_score, n, FALSE, NoError)
    /\ pc' = "done"
    /\ UNCHANGED << configVars, fsVars, queryVars, op, arg_profile,
                    profile_name, dry_run, initial_analysis, rb_backup,
                    rb_ret, exc, escaped, pre, prev >>

\* lines 189-191: except Exception, the call of rollback
ApplyExcept ==
    /\ pc = "a_except"
    /\ pc' = "rb_file"
    /\ rb_backup' = TRUE
    /\ rb_ret' = "a_except_return"
    /\ UNCHANGED << configVars, fsVars, queryVars, op, arg_profile,
                    profile_name, dry_run, initial_analysis, exc, result,
                    escaped, log, pre, prev >>

\* lines 192-199
ApplyExceptReturn ==
    /\ pc = "a_except_return"
    /\ result' = HardeningResult(FALSE, profile_name,
                      initial_analysis.exposure_score, NoScore, TRUE, exc)
    /\ pc' = "done"
    /\ UNCHANGED << configVars, fsVars, queryVars, op, arg_profile,
                    profile_name, dry_run, initial_analysis, rb_backup,
                    rb_ret, exc, escaped, log, pre, prev >>


----------------------------------------------------------------------------
(* HardeningEngine.rollback and the revert command                          *)

\* main.py lines 195-207: engine.rollback(service), no backup_file argument
RevertCall ==
    /\ pc = "idle"
    /\ op' = "revert"
    /\ pc' = "rb_file"
    /\ rb_backup' = FALSE
    /\ rb_ret' = "done"
    /\ pre' = Snapshot
    /\ log' = << >>
    /\ result' = NoResult
    /\ arg_profile' = None
    /\ profile_name' = None
    /\ dry_run' = FALSE
    /\ initial_analysis' = NoAnalysis
    /\ exc' = NoError
    /\ UNCHANGED << configVars, fsVars, queryVars, escaped, prev >>

\* lines 207-212
RollbackFile ==
    /\ pc = "rb_file"
    /\ IF rb_backup /\ backup_file.exists
       THEN \/ /\ override_file' = backup_file
               /\ Logged("restore_override")
               /\ pc' = "rb_reload"
               /\ UNCHANGED << exc, escaped, result >>
            \/ /\ Raise(<< "copy2 failed" >>)
               /\ UNCHANGED << override_file, log >>
       ELSE IF override_file.exists
       THEN \/ /\ override_file' = Absent
               /\ Logged("unlink_override")
               /\ pc' = "rb_reload"
               /\ UNCHANGED << exc, escaped, result >>
            \/ /\ Raise(<< "unlink failed" >>)
               /\ UNCHANGED << override_file, log >>
       ELSE /\ pc' = "rb_reload"
            /\ UNCHANGED << override_file, log, exc, escaped, result >>
    /\ UNCHANGED << configVars, override_dir, backup_file, queryVars, op,
                    arg_profile, profile_name, dry_run, initial_analysis,
                    rb_backup, rb_ret, pre, prev >>

\* line 214: daemon-reload with check=True
RollbackReload ==
    /\ pc = "rb_reload"
    /\ Logged("daemon-reload")
    /\ \/ /\ pc' = "rb_restart"
          /\ UNCHANGED << exc, escaped, result >>
       \/ Raise(<< "daemon-reload failed" >>)
    /\ UNCHANGED << configVars, fsVars, queryVars, op, arg_profile,
                    profile_name, dry_run, initial_analysis, rb_backup,
                    rb_ret, pre, prev >>

\* lines 215-216: restart with check=False, then the success message
RollbackRestart ==
    /\ pc = "rb_restart"
    /\ \E rc \in { "restart", "restart_nonzero" } :
          log' = log \o << rc, "print_rolled_back" >>
    /\ pc' = rb_ret
    /\ UNCHANGED << configVars, fsVars, queryVars, op, arg_profile,
                    profile_name, dry_run, initial_analysis, rb_backup,
                    rb_ret, exc, result, escaped, pre, prev >>

\* lines 217-218: except Exception inside rollback
RollbackExcept ==
    /\ pc = "rb_except"
    /\ Logged("print_rollback_error")
    /\ pc' = rb_ret
    /\ UNCHANGED << configVars, fsVars, queryVars, op, arg_profile,
                    profile_name, dry_run, initial_analysis, rb_backup,
                    rb_ret, exc, result, escaped, pre, prev >>

\* the caller receives the result; the locals of the call are gone
Return ==
    /\ pc = "done"
    /\ pc' = "idle"
    /\ prev' = IF op = "apply" /\ result.success /\ ~dry_run
                THEN [kind |-> "hardened", profile |-> result.profile_applied,
                      before |-> pre.override_file, after |-> override_file]
                ELSE [kind |-> "other", profile |-> None, before |-> Absent,
                      after |-> Absent]
    /\ op' = "none"
    /\ arg_profile' = None
    /\ profile_name' = None
    /\ dry_run' = FALSE
    /\ initial_analysis' = NoAnalysis
    /\ rb_backup' = FALSE
    /\ rb_ret' = "none"
    /\ exc' = NoError
    /\ result' = NoResult
    /\ escaped' = FALSE
    /\ log' = << >>
    /\ pre' = NoPre
    /\ UNCHANGED << configVars, fsVars, queryVars >>

Next ==
    \/ ApplyCall
    \/ ApplyExclusionCheck
    \/ ApplyBaseline
    \/ ApplyResolveProfile
    \/ ApplyDryRun
    \/ ApplyBackup
    \/ ApplyMkdir
    \/ ApplyOpen
    \/ ApplyWrite
    \/ ApplyReload
    \/ ApplyRestart
    \/ ApplyHealthCheck
    \/ ApplyHealthFailed
    \/ ApplyFinal
    \/ ApplyExcept
    \/ ApplyExceptReturn
    \/ RevertCall
    \/ RollbackFile
    \/ RollbackReload
    \/ RollbackRestart
    \/ RollbackExcept
    \/ Return

Spec == Init /\ [][Next]_vars

\* the program is sequential: a step that can be taken is taken
FairSpec == Spec /\ WF_vars(Next)

TypeOK ==
    /\ pc \in { "idle", "done", "a_excluded", "a_analyze", "a_profile",
                "a_dry_run", "a_health_failed", "a_except",
                "a_except_return", "rb_except" } \cup ApplyTry \cup RollbackTry
    /\ override_file.exists \in BOOLEAN
    /\ backup_file.exists \in BOOLEAN
    /\ escaped \in BOOLEAN


----------------------------------------------------------------------------
(* Exclusion matching on its own: every pattern list of the data model     *)
(* (an exact name, or a prefix followed by one trailing '*')               *)

MaxPatterns == 2
MaxPatLen   == 2
MaxNameLen  == 3

SeqsUpTo(S, n) == UNION { [1..k -> S] : k \in 0..n }

Letters == { "a", "b" }

ExactPatterns == SeqsUpTo(Letters, MaxPatLen)

WildcardPatterns == { Append(x, "*") : x \in SeqsUpTo(Letters, MaxPatLen - 1) }

PatternLists == SeqsUpTo(ExactPatterns \cup WildcardPatterns, MaxPatterns)

QueryNames == SeqsUpTo(Letters, MaxNameLen) \cup { <<"a", "*">>, <<"*">> }

InitExcl ==
    /\ profiles = ConfigA.profiles
    /\ service_mappings = ConfigA.service_mappings
    /\ excluded_services \in PatternLists
    /\ service_name = N_sshd
    /\ override_file = Absent
    /\ override_dir = FALSE
    /\ backup_file = Absent
    /\ EngineIdle
    /\ QueriesIdle

\* a call of engine.is_excluded(name), as main.py line 112 makes it
IsExcludedCall ==
    /\ op = "none"
    /\ \E n \in QueryNames :
          /\ q_name' = n
          /\ q_result' = is_excluded(n, excluded_services)
    /\ op' = "is_excluded"
    /\ UNCHANGED << configVars, fsVars, pc, arg_profile, profile_name,
                    dry_run, initial_analysis, rb_backup, rb_ret, exc,
                    result, escaped, log, pre, prev, audit_in, audit_out,
                    render_in, render_out >>

IsExcludedReturn ==
    /\ op = "is_excluded"
    /\ op' = "none"
    /\ q_name' = << >>
    /\ q_result' = FALSE
    /\ UNCHANGED << configVars, fsVars, pc, arg_profile, profile_name,
                    dry_run, initial_analysis, rb_backup, rb_ret, exc,
                    result, escaped, log, pre, prev, audit_in, audit_out,
                    render_in, render_out >>

NextExcl == IsExcludedCall \/ IsExcludedReturn

SpecExcl == InitExcl /\ [][NextExcl]_vars

----------------------------------------------------------------------------
(* SystemdAnalyzer.get_high_exposure_services                               *)

MaxServices == 3

AuditNames == { N_sshd, N_cron, N_docker, N_wpa_gdm }

AuditScores == { NoScore, 0, 50, 96 }

Thresholds == { 0, 50, 80 }

\* what analyze_service returns for a listed service: None (ok = FALSE) or
\* a ServiceAnalysis, whose exposure_score is None when no line matched
Outcomes == { [ok |-> FALSE, exposure_score |-> NoScore] }
            \cup { [ok |-> TRUE, exposure_score |-> sc] : sc \in AuditScores }

Entries == { [name |-> n, ok |-> o.ok, exposure_score |-> o.exposure_score] :
             n \in AuditNames, o \in Outcomes }

Listings == { l \in SeqsUpTo(Entries, MaxServices) :
                \A i, j \in 1..Len(l) : i # j => l[i].name # l[j].name }

Truthy(score) == score # NoScore /\ score # 0

\* line 97
Keeps(analysis, threshold) ==
    /\ analysis.ok
    /\ Truthy(analysis.exposure_score)
    /\ analysis.exposure_score >= threshold

\* lines 93-98
RECURSIVE high_exposure_from(_, _, _)
high_exposure_from(i, listing, threshold) ==
    IF i > Len(listing) THEN << >>
    ELSE IF Keeps(listing[i], threshold)
         THEN << listing[i] >> \o high_exposure_from(i + 1, listing, threshold)
         ELSE high_exposure_from(i + 1, listing, threshold)

\* line 100: key=lambda x: x.exposure_score or 0
SortKey(x) == IF Truthy(x.exposure_score) THEN x.exposure_score ELSE 0

\* insert x behind every element whose key is not smaller (a stable sort)
RECURSIVE InsertDesc(_, _)
InsertDesc(x, sorted) ==
    IF sorted = << >> THEN << x >>
    ELSE IF SortKey(Head(sorted)) >= SortKey(x)
         THEN << Head(sorted) >> \o InsertDesc(x, Tail(sorted))
         ELSE << x >> \o sorted

\* line 100: sorted(..., reverse=True)
RECURSIVE sorted_reverse(_)
sorted_reverse(xs) ==
    IF xs = << >> THEN << >>
    ELSE InsertDesc(xs[Len(xs)], sorted_reverse(SubSeq(xs, 1, Len(xs) - 1)))

get_high_exposure_services(listing, threshold) ==
    sorted_reverse(high_exposure_from(1, listing, threshold))

InitAudit ==
    /\ profiles = ConfigA.profiles
    /\ service_mappings = ConfigA.service_mappings
    /\ excluded_services = ConfigA.excluded_services
    /\ service_name = N_sshd
    /\ override_file = Absent
    /\ override_dir = FALSE
    /\ backup_file = Absent
    /\ EngineIdle
    /\ QueriesIdle

\* main.py lines 53 and 106
AuditCall ==
    /\ op = "none"
    /\ \E l \in Listings, t \in Thresholds :
          /\ audit_in' = [services |-> l, threshold |-> t]
          /\ audit_out' = get_high_exposure_services(l, t)
    /\ op' = "audit"
    /\ UNCHANGED << configVars, fsVars, pc, arg_profile, profile_name,
                    dry_run, initial_analysis, rb_backup, rb_ret, exc,
                    result, escaped, log, pre, prev, q_name, q_result,
                    render_in, render_out >>

AuditReturn ==
    /\ op = "audit"
    /\ op' = "none"
    /\ audit_in' = NoAudit
    /\ audit_out' = << >>
    /\ UNCHANGED << configVars, fsVars, pc, arg_profile, profile_name,
                    dry_run, initial_analysis, rb_backup, rb_ret, exc,
                    result, escaped, log, pre, prev, q_name, q_result,
                    render_in, render_out >>

NextAudit == AuditCall \/ AuditReturn

SpecAudit == InitAudit /\ [][NextAudit]_vars


----------------------------------------------------------------------------
(* HardeningOverrides.to_systemd_config on its own                          *)

MaxSet == 2

DirectiveValues == { "yes", "any", "" }

\* every HardeningOverrides with at most MaxSet directives set
OverrideSets ==
    UNION { { [f \in FieldSet |-> IF f \in S THEN v[f] ELSE None] :
                v \in [S -> DirectiveValues] } :
            S \in { T \in SUBSET FieldSet : Cardinality(T) <= MaxSet } }

InitRender ==
    /\ profiles = ConfigA.profiles
    /\ service_mappings = ConfigA.service_mappings
    /\ excluded_services = ConfigA.excluded_services
    /\ service_name = N_sshd
    /\ override_file = Absent
    /\ override_dir = FALSE
    /\ backup_file = Absent
    /\ EngineIdle
    /\ QueriesIdle

\* hardening.py lines 120 and 144: profile.overrides.to_systemd_config()
RenderCall ==
    /\ op = "none"
    /\ \E o \in OverrideSets :
          /\ render_in' = o
          /\ render_out' = to_systemd_config(o)
    /\ op' = "render"
    /\ UNCHANGED << configVars, fsVars, pc, arg_profile, profile_name,
                    dry_run, initial_analysis, rb_backup, rb_ret, exc,
                    result, escaped, log, pre, prev, q_name, q_result,
                    audit_in, audit_out >>

RenderReturn ==
    /\ op = "render"
    /\ op' = "none"
    /\ render_in' = NoOverrides
    /\ render_out' = << >>
    /\ UNCHANGED << configVars, fsVars, pc, arg_profile, profile_name,
                    dry_run, initial_analysis, rb_backup, rb_ret, exc,
                    result, escaped, log, pre, prev, q_name, q_result,
                    audit_in, audit_out >>

NextRender == RenderCall \/ RenderReturn

SpecRender == InitRender /\ [][NextRender]_vars

----------------------------------------------------------------------------
(* What the specification says, stated without the code's operators        *)

IsPrefixOf(p, n) ==
    /\ Len(p) <= Len(n)
    /\ \A i \in 1..Len(p) : n[i] = p[i]

HasStar(p) == \E i \in 1..Len(p) : p[i] = "*"

\* the name matches an exclusion pattern: exact, or prefix before trailing '*'
MatchesExclusion(name, patterns) ==
    \E i \in 1..Len(patterns) :
        \/ /\ Len(patterns[i]) > 0
           /\ patterns[i][Len(patterns[i])] = "*"
           /\ IsPrefixOf(SubSeq(patterns[i], 1, Len(patterns[i]) - 1), name)
        \/ /\ ~HasStar(patterns[i])
           /\ patterns[i] = name

\* the ordered rule table of the resolution: <<does the rule apply, profile>>
ResolutionRules(arg, name, mappings) ==
    << << arg # None /\ arg # "", arg >>,
       << \E m \in mappings : m[1] = name,
          IF \E m \in mappings : m[1] = name
          THEN (CHOOSE m \in mappings : m[1] = name)[2] ELSE None >>,
       << any_in(kw_network, name), "network_service" >>,
       << any_in(kw_virtual, name), "virtualization_service" >>,
       << any_in(kw_critical, name), "critical_service" >>,
       << TRUE, "system_service" >> >>

ExpectedProfile(arg, name, mappings) ==
    LET rules == ResolutionRules(arg, name, mappings)
        first == CHOOSE i \in 1..Len(rules) :
                    rules[i][1] /\ \A j \in 1..(i - 1) : ~rules[j][1]
    IN  rules[first][2]

RulesMatching(arg, name, mappings) ==
    { i \in 1..5 : ResolutionRules(arg, name, mappings)[i][1] }

ApplyReturned == pc = "done" /\ op = "apply"

\* the call got past the exclusion check and the baseline analysis
Analyzable ==
    /\ ~MatchesExclusion(service_name, excluded_services)
    /\ initial_analysis.ok

FileSystemUntouched ==
    /\ override_file = pre.override_file
    /\ backup_file = pre.backup_file
    /\ override_dir = pre.override_dir

Issued(e) == \E i \in 1..Len(log) : log[i] = e

Mutations == { "copy_backup", "mkdir", "open_override", "write_override",
               "restore_override", "unlink_override" }

Commands == { "daemon-reload", "restart", "restart_nonzero", "is-active" }

NoMutationIssued ==
    \A i \in 1..Len(log) : log[i] \notin Mutations \cup Commands

NoDuplicateLines(text) ==
    \A i, j \in 1..Len(text) : i # j => text[i] # text[j]

----------------------------------------------------------------------------
(* C1. Rollback safety: when an apply whose post-restart health check      *)
(* failed returns (its rollback having run through without an error), the  *)
(* override file is what it was when that apply began: the same content,   *)
(* or absent if there was none.                                            *)
C1_RollbackSafety ==
    ( /\ ApplyReturned
      /\ result.error = HealthError
      /\ Issued("print_rolled_back") )
    => override_file = pre.override_file

(* C2. An excluded service: apply_hardening returns success = FALSE with   *)
(* the exclusion error and has done nothing else: no analysis, no file or  *)
(* directory written, no reload and no restart, whatever the profile and   *)
(* dry_run arguments.                                                      *)
C2_ExcludedNoAction ==
    ( ApplyReturned /\ MatchesExclusion(service_name, excluded_services) )
    => /\ result.success = FALSE
       /\ result.error = ExclusionError
       /\ result.rollback_performed = FALSE
       /\ log = << >>
       /\ FileSystemUntouched

C2_Witness ==
    /\ ApplyReturned
    /\ MatchesExclusion(service_name, excluded_services)
    /\ service_name # excluded_services[1]
    /\ dry_run = FALSE
    /\ arg_profile = "critical_service"
    /\ pre.override_file.exists

(* C3. A resolved profile that is not in the profile table: the call       *)
(* returns success = FALSE, the error names that profile,                  *)
(* rollback_performed = FALSE, and nothing was written, reloaded or        *)
(* restarted.                                                              *)
C3_UnknownProfile ==
    ( /\ ApplyReturned
      /\ Analyzable
      /\ ExpectedProfile(arg_profile, service_name, service_mappings)
            \notin DOMAIN profiles )
    => /\ result.success = FALSE
       /\ result.error = << "Unknown profile: ",
              ExpectedProfile(arg_profile, service_name, service_mappings) >>
       /\ result.rollback_performed = FALSE
       /\ NoMutationIssued
       /\ FileSystemUntouched

C3_Witness ==
    /\ ApplyReturned
    /\ Analyzable
    /\ arg_profile = None
    /\ result.error = << "Unknown profile: ", "system_service" >>
    /\ dry_run = FALSE
    /\ pre.override_file.exists

(* C4. A dry run on a service that is not excluded, can be analyzed and    *)
(* resolves to a known profile returns success = TRUE with that profile    *)
(* and leaves the override file, the backup file and the directory as they *)
(* were, with no reload and no restart issued.                             *)
C4_DryRunFrame ==
    ( /\ ApplyReturned
      /\ dry_run
      /\ Analyzable
      /\ ExpectedProfile(arg_profile, service_name, service_mappings)
            \in DOMAIN profiles )
    => /\ result.success = TRUE
       /\ result.profile_applied =
              ExpectedProfile(arg_profile, service_name, service_mappings)
       /\ result.rollback_performed = FALSE
       /\ NoMutationIssued
       /\ FileSystemUntouched

C4_Witness ==
    /\ ApplyReturned
    /\ dry_run
    /\ result.success
    /\ result.profile_applied = "network_service"
    /\ ~pre.override_dir
    /\ initial_analysis.is_active

(* C5. Idempotence: when a successful apply of a profile directly follows  *)
(* a successful apply of the same profile, the override file after the     *)
(* second is the one the first left, and no line of it occurs twice.       *)
C5_Idempotent ==
    ( /\ ApplyReturned
      /\ ~dry_run
      /\ result.success
      /\ prev.kind = "hardened"
      /\ prev.profile = result.profile_applied )
    => /\ override_file = prev.after
       /\ override_file.exists
       /\ NoDuplicateLines(override_file.text)

C5_Witness ==
    /\ ApplyReturned
    /\ ~dry_run
    /\ result.success
    /\ prev.kind = "hardened"
    /\ prev.profile = result.profile_applied
    /\ initial_analysis.is_active
    /\ Issued("restart")
    /\ backup_file = prev.after


OverrideWrites == { "open_override", "write_override", "restore_override",
                    "unlink_override" }

(* C6. When apply_hardening or the revert command returns, every write,    *)
(* truncation, restore or deletion of the override file made during the    *)
(* call has been followed by a daemon-reload attempt.                      *)
C6_ReloadFollowsWrite ==
    ( pc = "done" /\ op \in { "apply", "revert" } )
    => \A i \in 1..Len(log) :
          log[i] \in OverrideWrites
          => \E j \in (i + 1)..Len(log) : log[j] = "daemon-reload"

(* C7. Once apply_hardening has resolved the profile, the profile is the   *)
(* one of the first applicable rule in the order: passed profile, service  *)
(* mapping, network names, virtualization names, critical names, default.  *)
C7_ResolutionOrder ==
    ( /\ op = "apply"
      /\ Analyzable
      /\ pc \notin { "idle", "a_excluded", "a_analyze", "a_profile" } )
    => profile_name =
          ExpectedProfile(arg_profile, service_name, service_mappings)

C7_Witness ==
    /\ op = "apply"
    /\ pc = "done"
    /\ result.success
    /\ arg_profile = None
    /\ service_name = N_gdm_docker
    /\ RulesMatching(arg_profile, service_name, service_mappings) = { 4, 5 }
    /\ result.profile_applied = "virtualization_service"

ResultHandedOver ==
    ApplyReturned
    => /\ ~escaped
       /\ result.service_name = service_name
       /\ result.success \in BOOLEAN
       /\ result.success <=> result.error = NoError
       /\ result.rollback_performed => ~result.success

(* C8. Every call of apply_hardening returns (each external command being *)
(* given that it comes back), whichever steps failed; and every return     *)
(* hands the caller a HardeningResult for the service, either a success    *)
(* without error text or a failure with one, no exception having left the  *)
(* call.                                                                   *)
C8_AlwaysAResult ==
    /\ [](( op = "apply" /\ pc # "done" ) => ENABLED Next)
    /\ []ResultHandedOver
    /\ ( op = "apply" /\ pc = "a_excluded" ) ~> ApplyReturned

C8_Witness ==
    /\ ApplyReturned
    /\ ~escaped
    /\ result.error = << "restart timed out after 10 seconds" >>
    /\ result.rollback_performed
    /\ Issued("print_rollback_error")

SameAnalysis(a, e) == a.name = e.name /\ a.exposure_score = e.exposure_score

(* C9. get_high_exposure_services(threshold) returns exactly the listed    *)
(* services whose analysis succeeded and whose score is present and        *)
(* >= threshold, each once, in order of descending score.                  *)
C9_HighExposure ==
    op = "audit"
    => /\ \A i \in 1..Len(audit_in.services) :
             ( /\ audit_in.services[i].ok
               /\ audit_in.services[i].exposure_score # NoScore
               /\ audit_in.services[i].exposure_score >= audit_in.threshold )
             <=> \E k \in 1..Len(audit_out) :
                    SameAnalysis(audit_out[k], audit_in.services[i])
       /\ \A k \in 1..Len(audit_out) :
             \E i \in 1..Len(audit_in.services) :
                SameAnalysis(audit_out[k], audit_in.services[i])
       /\ \A k, m \in 1..Len(audit_out) :
             k < m => /\ audit_out[k].exposure_score
                            >= audit_out[m].exposure_score
                      /\ audit_out[k].name # audit_out[m].name

(* C10. is_excluded(name) is TRUE exactly when a pattern ending in '*' has *)
(* the part before the '*' as a prefix of the name, or a pattern without   *)
(* '*' equals the name; a pattern without '*' that is only a proper prefix *)
(* of the name does not match it.                                          *)
C10_ExclusionMatching ==
    op = "is_excluded"
    => /\ q_result <=> MatchesExclusion(q_name, excluded_services)
       /\ ( \A i \in 1..Len(excluded_services) :
               \/ ~HasStar(excluded_services[i]) /\ excluded_services[i] # q_name
               \/ /\ HasStar(excluded_services[i])
                  /\ ~IsPrefixOf(AllButLast(excluded_services[i]), q_name) )
          => ~q_result

C10_Witness ==
    /\ op = "is_excluded"
    /\ ~q_result
    /\ Len(excluded_services) = 2
    /\ excluded_services[1] = << "a" >>
    /\ excluded_services[2] = << "b", "*" >>
    /\ q_name = << "a", "b" >>


LinesOf(out, f) == { i \in 1..Len(out) : Len(out[i]) = 3 /\ out[i][1] = f }

(* C11. to_systemd_config renders the '[Service]' header once, as the      *)
(* first line, then exactly one line D=V for every directive D set to V,   *)
(* and no line for a directive that is not set.                            *)
C11_Rendering ==
    op = "render"
    => /\ Len(render_out) >= 1
       /\ render_out[1] = << "[Service]" >>
       /\ \A i \in 2..Len(render_out) :
             /\ Len(render_out[i]) = 3
             /\ render_out[i][1] \in FieldSet
             /\ render_out[i][2] = "="
             /\ render_out[i][3] # None
       /\ \A f \in FieldSet :
             IF render_in[f] = None
             THEN LinesOf(render_out, f) = { }
             ELSE /\ Cardinality(LinesOf(render_out, f)) = 1
                  /\ \A i \in LinesOf(render_out, f) :
                        render_out[i] = << f, "=", render_in[f] >>

C11_Witness ==
    /\ op = "render"
    /\ render_in["PrivateTmp"] = "yes"
    /\ render_in["IPAddressDeny"] = "any"
    /\ render_in["NoNewPrivileges"] = None
    /\ render_out = << << "[Service]" >>, << "IPAddressDeny", "=", "any" >>,
                       << "PrivateTmp", "=", "yes" >> >>


\* a step of the mutation phase raised, or the health check did not say active
StepFailed == exc # NoError \/ rb_ret = "a_health_failed"

RollbackRan == Issued("print_rolled_back") \/ Issued("print_rollback_error")

(* C12. When a step after the start of the mutation phase has failed (the  *)
(* backup copy, mkdir, the write, daemon-reload, the restart by exit       *)
(* status or timeout, or the health check), apply_hardening has run the    *)
(* rollback procedure and returns success = FALSE with                     *)
(* rollback_performed = TRUE and an error text.                            *)
C12_FailureRollsBack ==
    ( ApplyReturned /\ StepFailed )
    => /\ result.success = FALSE
       /\ result.rollback_performed = TRUE
       /\ result.error # NoError
       /\ result.error = IF exc # NoError THEN exc ELSE HealthError
       /\ RollbackRan

C12_Witness ==
    /\ ApplyReturned
    /\ exc = << "mkdir failed" >>
    /\ ~pre.override_dir
    /\ result.rollback_performed
    /\ Issued("print_rolled_back")


\* rollback has just returned to its caller
RollbackReturned ==
    \/ pc \in { "a_health_failed", "a_except_return" }
    \/ pc = "done" /\ op = "revert"

RestartEvents == { "restart", "restart_nonzero" }

(* C13. When the rollback procedure has run through, for a failed apply or *)
(* for the revert command: a backup file that exists has been restored     *)
(* over the override file; without a backup file the override file is      *)
(* gone; and the procedure ended with a daemon-reload and then a restart   *)
(* attempt, a failing restart included.                                    *)
C13_RollbackProcedure ==
    ( /\ RollbackReturned
      /\ Len(log) > 0
      /\ log[Len(log)] = "print_rolled_back" )
    => /\ backup_file.exists => override_file = backup_file
       /\ ~backup_file.exists => ~override_file.exists
       /\ Len(log) >= 3
       /\ log[Len(log) - 2] = "daemon-reload"
       /\ log[Len(log) - 1] \in RestartEvents


(* C14. When the baseline analysis fails, apply_hardening returns          *)
(* success = FALSE with the 'Failed to analyze' error and                  *)
(* rollback_performed = FALSE, the profile still unresolved, no file or    *)
(* directory written and no reload or restart issued.                      *)
C14_AnalysisFails ==
    ( /\ ApplyReturned
      /\ ~MatchesExclusion(service_name, excluded_services)
      /\ ~initial_analysis.ok )
    => /\ result.success = FALSE
       /\ result.error = << "Failed to analyze service" >>
       /\ result.rollback_performed = FALSE
       /\ result.profile_applied = None
       /\ profile_name = arg_profile
       /\ log = << "analyze" >>
       /\ FileSystemUntouched

C14_Witness ==
    /\ ApplyReturned
    /\ ~MatchesExclusion(service_name, excluded_services)
    /\ ~initial_analysis.ok
    /\ arg_profile = "bogus"
    /\ ~dry_run
    /\ pre.override_file.exists

RestartCount == Cardinality({ i \in 1..Len(log) : log[i] \in RestartEvents })

InactiveAtBaseline == initial_analysis.ok /\ ~initial_analysis.is_active

C16_RoundTrip ==
    ( /\ pc = "done"
      /\ op = "revert"
      /\ prev.kind = "hardened"
      /\ Issued("print_rolled_back") )
    => override_file = prev.before

====
